---- MODULE Spec2Model ----
(***************************************************************************)
(* State-machine model of selenium-linkedin.py: one run of main(), with    *)
(* the browser (DOM, clicks, waits) as the nondeterministic environment.   *)
(* Text (hrefs, URLs, element text) is a sequence of tokens; the token     *)
(* " " is white space, "?" and "#" are the URL delimiters.                 *)
(***************************************************************************)
EXTENDS Integers, Sequences, FiniteSets, TLC

\* ------------------------------------------------------------ bounds
\* largest value of --pages explored
MaxPages == 3
\* most anchor elements a results page shows
LinksPerPage == 2
\* number of distinct job postings the site can list
NumJobs == 2
\* cap on the recursion depth explored in clear_signin_overlay_or_reauth
MaxDepth == 3
\* longest tail (query string and fragment tokens) of an href given to the
\* string functions when they are called on their own
MaxTailLen == 3
\* longest selector list given to first_text when it is called on its own
MaxCandidates == 2

\* ------------------------------------------------------------ program constants
\* default of the parameter attempts
DefaultAttempts == 1
\* number of close-button selectors tried
NumDismissSel == 3
\* number of cookie/consent selectors tried by login
NumConsentSel == 6
\* number of results-container candidates
NumContainerSel == 5
\* number of pagination-button selectors per page
NumPageSel == 2
\* first page index of the pagination loop
FirstNextPage == 2

\* ------------------------------------------------------------ text
\* Python's None, as a text value
None == <<"<None>">>
Empty == <<>>

LoginUrl == <<"https://www.linkedin.com", "/login">>
SearchUrl == <<"https://www.linkedin.com", "/jobs/search/", "?", "keywords">>
SignInUrl == <<"https://www.linkedin.com", "/signup">>
NoUrl == <<"about:blank">>
\* the literal tested by href.startswith(...)
ViewPrefix == <<"https://www.linkedin.com", "/jobs/view">>

StartsWith(s, p) ==
    /\ Len(s) >= Len(p)
    /\ SubSeq(s, 1, Len(p)) = p

RECURSIVE LStrip(_)
LStrip(s) == IF s # <<>> /\ Head(s) = " " THEN LStrip(Tail(s)) ELSE s

RECURSIVE RStrip(_)
RStrip(s) ==
    IF s # <<>> /\ s[Len(s)] = " " THEN RStrip(SubSeq(s, 1, Len(s) - 1)) ELSE s

\* str.strip()
Strip(s) == RStrip(LStrip(s))

\* s.split(sep)[0]: the text before the first sep, all of s if there is none
RECURSIVE SplitFirst(_, _)
SplitFirst(s, sep) ==
    IF s = <<>> \/ Head(s) = sep THEN <<>>
    ELSE <<Head(s)>> \o SplitFirst(Tail(s), sep)

\* (x or ""): None and "" both become ""
OrEmpty(x) == IF x = None THEN Empty ELSE x

\* Python truthiness of an Optional[str]
Falsy(x) == x = None \/ x = Empty

RECURSIVE SeqToSet(_)
SeqToSet(s) == IF s = <<>> THEN {} ELSE {Head(s)} \cup SeqToSet(Tail(s))

\* ------------------------------------------------------------ hrefs of a results page
JobPaths == {<<"/", ToString(j)>> : j \in 1..NumJobs}
UrlTails == {<<>>, <<"?", "refId">>, <<"?", "refId", "#", "frag">>,
             <<"?", "refId", "?", "trk">>}
Padding == {<<>>, <<" ">>}

\* what a.get_attribute("href") can give
Hrefs ==
    {None, Empty, SearchUrl}
    \cup {p \o ViewPrefix \o j \o t \o p : p \in Padding, j \in JobPaths, t \in UrlTails}

\* ------------------------------------------------------------ state
VARIABLES
    pc,         \* control location of the run
    creds,      \* LINKEDIN_USER and LINKEDIN_PASS are both set
    pages,      \* args.pages
    driver,     \* "none", "open" or "closed"
    quitCalls,  \* number of driver.quit() calls
    err,        \* the exception propagating out of main's try block, or "none"
    exitCode,   \* process exit code, -1 while running
    url,        \* driver.current_url
    overlay,    \* the sign-in overlay is in the DOM
    lret,       \* caller of login: "main" or "recover"
    lsel,       \* login: index of the consent selector being tried
    attempts,   \* clear_signin_overlay_or_reauth: parameter attempts
    depth,      \* clear_signin_overlay_or_reauth: recursion depth
    dsel,       \* clear_signin_overlay_or_reauth: index of the close selector
    rlog,       \* history: what the recovery routine did, in order
    entryMark,  \* history: Len(rlog) when the current invocation was entered
    dismissed,  \* history: a close button was clicked and the overlay was gone
    recoveries, \* history: top-level calls of clear_signin_overlay_or_reauth
    page,       \* collect_links: loop variable page
    container,  \* collect_links.harvest: index of the container found, 0 = None
    anchorsLeft,\* collect_links.harvest: anchors of the page not yet looked at
    seen,       \* history: every canonical link a harvest() call produced
    links,      \* collect_links: the set links
    harvests,   \* history: completed calls of harvest()
    stop,       \* history: why pagination ended
    linkList,   \* main: links, the list collect_links returned
    idx,        \* main: position in linkList, 1-based
    records,    \* main: records
    visited,    \* history: URLs scrape_job was called with, in order
    results,    \* history: what each scrape_job call returned, in order
    lastPage,   \* history: the detail page the last scrape_job call met
    outcome,    \* history: what persistence recorded
    llog,       \* history: what the login call in progress or just over did
    clickLog,   \* history: the page indices whose button was clicked, in order
    probe       \* the call of a helper function under test, with its result

vars == <<pc, creds, pages, driver, quitCalls, err, exitCode, url, overlay,
          lret, lsel, attempts, depth, dsel, rlog, entryMark, dismissed,
          recoveries, page, container, anchorsLeft, seen, links, harvests, stop,
          linkList, idx, records, visited, results, lastPage, outcome,
          llog, clickLog, probe>>

sessionVars == <<creds, pages, driver, quitCalls, err, exitCode>>
loginVars == <<lret, lsel, llog>>
recoverVars == <<attempts, depth, dsel, rlog, entryMark, dismissed, recoveries>>
collectVars == <<page, container, anchorsLeft, seen, links, harvests, stop, clickLog>>
scrapeVars == <<linkList, idx, records, visited, results, lastPage, outcome>>

\* no helper function is under test
Idle == [kind |-> "idle"]

\* the state in which main starts; --pages is any integer, negative ones behave
\* like 0
RunInit ==
    /\ pc = "start"
    /\ creds \in BOOLEAN
    /\ pages \in (0 - 1)..MaxPages
    /\ driver = "none"
    /\ quitCalls = 0
    /\ err = "none"
    /\ exitCode = -1
    /\ url = NoUrl
    /\ overlay = FALSE
    /\ lret = "main"
    /\ lsel = 0
    /\ attempts = 0
    /\ depth = 0
    /\ dsel = 0
    /\ rlog = <<>>
    /\ entryMark = 0
    /\ dismissed = FALSE
    /\ recoveries = 0
    /\ page = 0
    /\ container = 0
    /\ links = {}
    /\ harvests = 0
    /\ anchorsLeft = 0
    /\ seen = {}
    /\ stop = "none"
    /\ linkList = <<>>
    /\ idx = 0
    /\ records = <<>>
    /\ visited = <<>>
    /\ results = <<>>
    /\ lastPage = [nav |-> FALSE]
    /\ outcome = "none"
    /\ llog = <<>>
    /\ clickLog = <<>>

Init ==
    /\ RunInit
    /\ probe = Idle

\* ------------------------------------------------------------ main, first part
\* get_credentials(), then make_driver()
Start ==
    /\ UNCHANGED probe
    /\ pc = "start"
    /\ IF creds
       THEN /\ driver' = "open"
            /\ pc' = "m_login"
            /\ UNCHANGED <<err, exitCode>>
       ELSE /\ err' = "RuntimeError"
            /\ exitCode' = 1
            /\ pc' = "done"
            /\ UNCHANGED driver
    /\ UNCHANGED <<creds, pages, quitCalls, url, overlay>>
    /\ UNCHANGED <<loginVars, recoverVars, collectVars, scrapeVars>>

\* login(driver, wait, user, pwd) called by main
MainLogin ==
    /\ UNCHANGED probe
    /\ pc = "m_login"
    /\ lret' = "main"
    /\ pc' = "l_get"
    /\ UNCHANGED <<sessionVars, url, overlay, lsel, llog, recoverVars, collectVars,
                   scrapeVars>>

\* driver.get(search_url); time.sleep(1.0)
MainGet ==
    /\ UNCHANGED probe
    /\ pc = "m_get"
    /\ url' = SearchUrl
    /\ overlay' \in BOOLEAN
    /\ llog' = <<>>
    /\ pc' = "m_recover"
    /\ UNCHANGED <<sessionVars, lret, lsel, recoverVars, collectVars, scrapeVars>>

\* clear_signin_overlay_or_reauth(driver, wait, search_url, user, pwd)
MainRecover ==
    /\ UNCHANGED probe
    /\ pc = "m_recover"
    /\ attempts' = DefaultAttempts
    /\ depth' = 0
    /\ entryMark' = Len(rlog)
    /\ recoveries' = recoveries + 1
    /\ pc' = "r_entry"
    /\ UNCHANGED <<sessionVars, url, overlay, loginVars, dsel, rlog, dismissed>>
    /\ UNCHANGED <<collectVars, scrapeVars>>

\* ------------------------------------------------------------ login
\* AfterLogin with the navigation back to search_url left out
AfterLoginNoRenavigate(caller) == IF caller = "main" THEN "m_get" ELSE "r_recheck"

\* where login returns to
AfterLogin(caller) == IF caller = "main" THEN "m_get" ELSE "r_get"

\* driver.get("https://www.linkedin.com/login")
LoginGet ==
    /\ UNCHANGED probe
    /\ pc = "l_get"
    /\ url' = LoginUrl
    /\ overlay' \in BOOLEAN
    /\ lsel' = 1
    /\ llog' = <<"get">>
    /\ pc' = "l_consent"
    /\ UNCHANGED <<sessionVars, lret, recoverVars, collectVars, scrapeVars>>

\* one iteration of the consent loop: try_click by XPATH or, failing that, by CSS
LoginConsent ==
    /\ UNCHANGED probe
    /\ pc = "l_consent"
    /\ \E byXpath \in BOOLEAN, byCss \in BOOLEAN :
         IF lsel > NumConsentSel
         THEN /\ pc' = "l_fields"
              /\ UNCHANGED <<lsel, llog>>
         ELSE IF byXpath \/ byCss
              THEN /\ pc' = "l_fields"
                   /\ llog' = Append(llog, "consent_clicked")
                   /\ UNCHANGED lsel
              ELSE /\ lsel' = lsel + 1
                   /\ llog' = Append(llog, "consent_missed")
                   /\ pc' = "l_consent"
    /\ UNCHANGED <<sessionVars, url, overlay, lret, recoverVars, collectVars, scrapeVars>>

\* FieldsStep raising as well when the submit button cannot be clicked
FieldsStepNeedsSubmit(userVisible, passVisible, submitted) ==
    IF userVisible /\ passVisible /\ submitted
    THEN /\ pc' = AfterLogin(lret)
         /\ url' \in {LoginUrl, NoUrl}
         /\ llog' = llog \o <<"username", "password", "submit">>
         /\ UNCHANGED err
    ELSE /\ err' = "LoginTimeout"
         /\ pc' = "finally"
         /\ llog' = llog \o (IF ~userVisible THEN <<"no_username">>
                             ELSE IF ~passVisible THEN <<"username", "no_password">>
                             ELSE <<"username", "password", "submit_failed">>)
                         \o <<"raise">>
         /\ UNCHANGED url

\* the rest of login after the consent loop: the two waits with send_keys and
\* the click on the submit button, whose result is not looked at

\* wait.until(visibility of username).send_keys, the same for password, then
\* try_click on the submit button
FieldsStep(userVisible, passVisible, submitted) ==
    IF userVisible /\ passVisible
    THEN /\ pc' = AfterLogin(lret)
         /\ url' \in IF submitted THEN {LoginUrl, NoUrl} ELSE {LoginUrl}
         /\ llog' = llog \o <<"username", "password">>
                         \o <<IF submitted THEN "submit" ELSE "submit_failed">>
         /\ UNCHANGED err
    ELSE /\ err' = "LoginTimeout"
         /\ pc' = "finally"
         /\ llog' = llog \o (IF userVisible THEN <<"username", "no_password">>
                                             ELSE <<"no_username">>)
                         \o <<"raise">>
         /\ UNCHANGED url

LoginFields ==
    /\ UNCHANGED probe
    /\ pc = "l_fields"
    /\ \E userVisible \in BOOLEAN, passVisible \in BOOLEAN, submitted \in BOOLEAN :
         FieldsStep(userVisible, passVisible, submitted)
    /\ lsel' = 0
    /\ UNCHANGED <<creds, pages, driver, quitCalls, exitCode, overlay, lret>>
    /\ UNCHANGED <<recoverVars, collectVars, scrapeVars>>

\* ------------------------------------------------------------ authwall recovery
\* is_authwall_modal(driver)
IsAuthwallModal == overlay

\* the caller of the outermost invocation resumes: recursion is in tail position
RecoverReturn ==
    /\ pc' = "m_collect"
    /\ attempts' = 0
    /\ depth' = 0
    /\ dsel' = 0

\* if not is_authwall_modal(driver): return
RecoverEntry ==
    /\ UNCHANGED probe
    /\ pc = "r_entry"
    /\ IF ~IsAuthwallModal
       THEN RecoverReturn
       ELSE /\ dsel' = 1
            /\ pc' = "r_dismiss"
            /\ UNCHANGED <<attempts, depth>>
    /\ UNCHANGED <<sessionVars, url, overlay, loginVars, rlog, entryMark, dismissed,
                   recoveries, collectVars, scrapeVars>>

\* DismissStep without the return after a dismissal that worked
DismissStepNoReturn(clicked, after) ==
    /\ overlay' = after
    /\ dismissed' = (dismissed \/ (clicked /\ ~after))
    /\ UNCHANGED <<attempts, depth>>
    /\ IF dsel < NumDismissSel
       THEN /\ dsel' = dsel + 1
            /\ pc' = "r_dismiss"
       ELSE /\ dsel' = 0
            /\ pc' = "r_signin"

\* one iteration of the close-button loop: if try_click(sel): sleep; if not
\* is_authwall_modal(driver): return.  clicked is try_click's result, after is
\* whether the overlay is in the DOM once the click has been handled
DismissStep(clicked, after) ==
    IF clicked /\ ~after
    THEN /\ overlay' = after
         /\ dismissed' = TRUE
         /\ RecoverReturn
    ELSE /\ overlay' = after
         /\ UNCHANGED <<dismissed, attempts, depth>>
         /\ IF dsel < NumDismissSel
            THEN /\ dsel' = dsel + 1
                 /\ pc' = "r_dismiss"
            ELSE /\ dsel' = 0
                 /\ pc' = "r_signin"

RecoverDismiss ==
    /\ UNCHANGED probe
    /\ pc = "r_dismiss"
    /\ \E clicked \in BOOLEAN :
         \E after \in (IF clicked THEN BOOLEAN ELSE {overlay}) :
            DismissStep(clicked, after)
    /\ UNCHANGED <<sessionVars, url, loginVars, rlog, entryMark, recoveries,
                   collectVars, scrapeVars>>

\* clicked = try_click(button 'Sign in') or, failing that, try_click(a 'Sign in')
SignInStep(button, anchor) ==
    IF button \/ anchor
    THEN /\ rlog' = Append(rlog, "signin")
         /\ url' = SignInUrl
         /\ pc' = "r_login"
    ELSE /\ pc' = "r_esc"
         /\ UNCHANGED <<rlog, url>>

RecoverSignIn ==
    /\ UNCHANGED probe
    /\ pc = "r_signin"
    /\ \E button \in BOOLEAN, anchor \in BOOLEAN : SignInStep(button, anchor)
    /\ UNCHANGED <<sessionVars, overlay, loginVars, attempts, depth, dsel, entryMark,
                   dismissed, recoveries, collectVars, scrapeVars>>

\* login(driver, wait, user, pwd) called by the recovery routine
RecoverLogin ==
    /\ UNCHANGED probe
    /\ pc = "r_login"
    /\ rlog' = Append(rlog, "login")
    /\ lret' = "recover"
    /\ pc' = "l_get"
    /\ UNCHANGED <<sessionVars, url, overlay, lsel, llog, attempts, depth, dsel, entryMark,
                   dismissed, recoveries, collectVars, scrapeVars>>

\* driver.get(search_url); time.sleep(1.0)
RecoverGet ==
    /\ UNCHANGED probe
    /\ pc = "r_get"
    /\ url' = SearchUrl
    /\ overlay' \in BOOLEAN
    /\ rlog' = Append(rlog, "get")
    /\ llog' = <<>>
    /\ pc' = "r_recheck"
    /\ UNCHANGED <<sessionVars, lret, lsel, attempts, depth, dsel, entryMark,
                   dismissed, recoveries, collectVars, scrapeVars>>

\* RecheckStep recursing with attempts instead of attempts - 1
RecheckStepNoDecrement(budget) ==
    IF budget > 0
    THEN /\ rlog' = Append(rlog, IF IsAuthwallModal THEN "check_reenter" ELSE "check")
         /\ IF IsAuthwallModal
            THEN /\ depth < MaxDepth
                 /\ attempts' = budget
                 /\ depth' = depth + 1
                 /\ entryMark' = Len(rlog) + 1
                 /\ pc' = "r_entry"
                 /\ UNCHANGED dsel
            ELSE /\ RecoverReturn
                 /\ UNCHANGED entryMark
    ELSE /\ RecoverReturn
         /\ UNCHANGED <<rlog, entryMark>>

\* if attempts > 0 and is_authwall_modal(driver): recurse with attempts - 1
RecheckStep(budget) ==
    IF budget > 0
    THEN /\ rlog' = Append(rlog, IF IsAuthwallModal THEN "check_reenter" ELSE "check")
         /\ IF IsAuthwallModal
            THEN /\ depth < MaxDepth
                 /\ attempts' = budget - 1
                 /\ depth' = depth + 1
                 /\ entryMark' = Len(rlog) + 1
                 /\ pc' = "r_entry"
                 /\ UNCHANGED dsel
            ELSE /\ RecoverReturn
                 /\ UNCHANGED entryMark
    ELSE /\ RecoverReturn
         /\ UNCHANGED <<rlog, entryMark>>

RecoverRecheck ==
    /\ UNCHANGED probe
    /\ pc = "r_recheck"
    /\ RecheckStep(attempts)
    /\ UNCHANGED <<sessionVars, url, overlay, loginVars, dismissed, recoveries,
                   collectVars, scrapeVars>>

\* EscapeStep starting the routine over after the escape key
EscapeStepRetries(sent, closes) ==
    /\ rlog' = IF sent THEN Append(rlog, "esc") ELSE Append(rlog, "esc_failed")
    /\ overlay' = IF sent /\ closes THEN FALSE ELSE overlay
    /\ pc' = "r_entry"
    /\ UNCHANGED <<attempts, depth, dsel>>

\* driver.find_element(body).send_keys(Keys.ESCAPE), any exception swallowed
EscapeStep(sent, closes) ==
    /\ rlog' = IF sent THEN Append(rlog, "esc") ELSE Append(rlog, "esc_failed")
    /\ overlay' = IF sent /\ closes THEN FALSE ELSE overlay
    /\ RecoverReturn

RecoverEscape ==
    /\ UNCHANGED probe
    /\ pc = "r_esc"
    /\ \E sent \in BOOLEAN, closes \in BOOLEAN : EscapeStep(sent, closes)
    /\ UNCHANGED <<sessionVars, url, loginVars, entryMark, dismissed, recoveries,
                   collectVars, scrapeVars>>

\* ------------------------------------------------------------ collect_links
Max(a, b) == IF a >= b THEN a ELSE b
Min(S) == CHOOSE m \in S : \A n \in S : m <= n

\* _find_results_container: the first candidate, in list order, that becomes
\* present; 0 stands for None.  present is the set of candidates in the DOM
FindResultsContainer(present) ==
    IF present = {} THEN 0 ELSE Min(present)

\* the text before the last sep, all of s if there is none
RECURSIVE SplitLast(_, _)
SplitLast(s, sep) ==
    IF s = <<>> THEN <<>>
    ELSE IF s[Len(s)] = sep THEN SubSeq(s, 1, Len(s) - 1)
         ELSE IF sep \in SeqToSet(s) THEN SplitLast(SubSeq(s, 1, Len(s) - 1), sep)
              ELSE s

\* Canonical cutting at the last "?" instead of the first
CanonicalCutsLastQuery(h) == SplitLast(h, "?")

\* href.split("?")[0]
Canonical(h) == SplitFirst(h, "?")

\* HarvestLink cutting the fragment off as well as the query string
HarvestLinkCutsFragment(attr) ==
    IF StartsWith(Strip(OrEmpty(attr)), ViewPrefix)
    THEN {SplitFirst(Canonical(Strip(OrEmpty(attr))), "#")}
    ELSE {}

\* HarvestLink adding the href as it is, query string included
HarvestLinkKeepQuery(attr) ==
    IF StartsWith(Strip(OrEmpty(attr)), ViewPrefix)
    THEN {Strip(OrEmpty(attr))}
    ELSE {}

\* the body of harvest's loop for one anchor: the links it adds
HarvestLink(attr) ==
    IF StartsWith(Strip(OrEmpty(attr)), ViewPrefix)
    THEN {Canonical(Strip(OrEmpty(attr)))}
    ELSE {}

\* PageRange with the upper end included: range(2, max(2, pages + 1) + 1)
PageRangeInclusive(n) == FirstNextPage..Max(FirstNextPage, n + 1)

\* range(2, max(2, pages + 1))
PageRange(n) == FirstNextPage..(Max(FirstNextPage, n + 1) - 1)

\* links = set(); then harvest() for page 1
MainCollect ==
    /\ UNCHANGED probe
    /\ pc = "m_collect"
    /\ links' = {}
    /\ seen' = {}
    /\ page' = 1
    /\ harvests' = 0
    /\ stop' = "none"
    /\ clickLog' = <<>>
    /\ pc' = "c_find"
    /\ UNCHANGED <<sessionVars, url, overlay, loginVars, recoverVars, container,
                   anchorsLeft, scrapeVars>>

\* ContainerStep logging the missing container and going on with no anchors
ContainerStepLogsOnly(found, n) ==
    /\ err' = IF found = 0 THEN "ResultsTimeout" ELSE err
    /\ container' = found
    /\ anchorsLeft' = IF found = 0 THEN 0 ELSE n
    /\ pc' = "c_anchors"

\* harvest(), first part: the container, or TimeoutException; then the three
\* find_elements calls, which give at most LinksPerPage distinct anchor elements
\* (an element matched by several selectors is read again with the same href,
\* which adds nothing to the set)
ContainerStep(found, n) ==
    IF found = 0
    THEN /\ err' = "ResultsTimeout"
         /\ pc' = "finally"
         /\ UNCHANGED <<container, anchorsLeft>>
    ELSE /\ container' = found
         /\ anchorsLeft' = n
         /\ pc' = "c_anchors"
         /\ UNCHANGED err

HarvestFind ==
    /\ UNCHANGED probe
    /\ pc = "c_find"
    /\ \E present \in SUBSET (1..NumContainerSel), n \in 0..LinksPerPage :
         ContainerStep(FindResultsContainer(present), n)
    /\ UNCHANGED <<creds, pages, driver, quitCalls, exitCode, url, overlay, loginVars,
                   recoverVars, page, seen, links, harvests, stop, clickLog, scrapeVars>>

\* harvest(), one iteration of "for a in anchors"
HarvestAnchor ==
    /\ UNCHANGED probe
    /\ pc = "c_anchors"
    /\ anchorsLeft > 0
    /\ \E attr \in Hrefs :
         /\ links' = links \cup HarvestLink(attr)
         /\ seen' = seen \cup HarvestLink(attr)
    /\ anchorsLeft' = anchorsLeft - 1
    /\ UNCHANGED <<pc, sessionVars, url, overlay, loginVars, recoverVars, page,
                   container, harvests, stop, clickLog, scrapeVars>>

\* harvest() returns; the pagination loop starts or goes on with the next page
HarvestDone ==
    /\ UNCHANGED probe
    /\ pc = "c_anchors"
    /\ anchorsLeft = 0
    /\ harvests' = harvests + 1
    /\ container' = 0
    /\ page' = page + 1
    /\ pc' = "c_loop"
    /\ UNCHANGED <<sessionVars, url, overlay, loginVars, recoverVars, anchorsLeft,
                   seen, links, stop, clickLog, scrapeVars>>

\* PaginateStep logging the missing control but going on to harvest
PaginateStepNoBreak(clickable) ==
    IF page \in PageRange(pages)
    THEN /\ overlay' \in BOOLEAN
         /\ pc' = "c_find"
         /\ clickLog' = Append(clickLog, page)
         /\ stop' = IF clickable # {} THEN stop ELSE "no_control"
    ELSE /\ stop' = "exhausted"
         /\ pc' = "c_return"
         /\ UNCHANGED <<overlay, clickLog>>

\* one iteration of the pagination loop up to harvest(): clickable is the set
\* of the page's button selectors that can be clicked
PaginateStep(clickable) ==
    IF page \in PageRange(pages)
    THEN IF clickable # {}
         THEN /\ overlay' \in BOOLEAN
              /\ pc' = "c_find"
              /\ clickLog' = Append(clickLog, page)
              /\ UNCHANGED stop
         ELSE /\ stop' = "no_control"
              /\ pc' = "c_return"
              /\ UNCHANGED <<overlay, clickLog>>
    ELSE /\ stop' = "exhausted"
         /\ pc' = "c_return"
         /\ UNCHANGED <<overlay, clickLog>>

Paginate ==
    /\ UNCHANGED probe
    /\ pc = "c_loop"
    /\ \E clickable \in SUBSET (1..NumPageSel) : PaginateStep(clickable)
    /\ UNCHANGED <<sessionVars, url, loginVars, recoverVars, page, container,
                   anchorsLeft, seen, links, harvests, scrapeVars>>

\* the orders list(s) can give for a set s
Orders(s) ==
    {f \in [1..Cardinality(s) -> s] : \A i, j \in 1..Cardinality(s) : f[i] = f[j] => i = j}

\* CollectReturn giving back nothing when pagination stopped for want of a
\* page control
CollectReturnDropsOnEarlyStop ==
    /\ UNCHANGED probe
    /\ pc = "c_return"
    /\ linkList' \in IF stop = "no_control" THEN {<<>>} ELSE Orders(links)
    /\ idx' = 1
    /\ pc' = "m_scrape"
    /\ UNCHANGED <<sessionVars, url, overlay, loginVars, recoverVars, collectVars,
                   records, visited, results, lastPage, outcome>>

\* return list(links)
CollectReturn ==
    /\ UNCHANGED probe
    /\ pc = "c_return"
    /\ linkList' \in Orders(links)
    /\ idx' = 1
    /\ pc' = "m_scrape"
    /\ UNCHANGED <<sessionVars, url, overlay, loginVars, recoverVars, collectVars,
                   records, visited, results, lastPage, outcome>>

\* ------------------------------------------------------------ scrape_job
\* a locator that never becomes present within its wait
Missing == <<"<TimeoutException>">>

\* first_text: the stripped text of the first candidate, in list order, that
\* is present and whose text is not blank; None if there is none.  found[i]
\* is Missing or the text of the element candidate i locates
RECURSIVE first_text(_)
\* first_text returning the text of the first candidate that is present, blank
\* or not
RECURSIVE FirstTextOfFirstPresent(_)
FirstTextOfFirstPresent(found) ==
    IF found = <<>> THEN None
    ELSE IF Head(found) # Missing THEN Strip(Head(found))
         ELSE FirstTextOfFirstPresent(Tail(found))

first_text(found) ==
    IF found = <<>> THEN None
    ELSE IF Head(found) # Missing /\ Strip(Head(found)) # Empty
         THEN Strip(Head(found))
         ELSE first_text(Tail(found))

\* the detail pages explored.  nav: driver.get succeeds; top: the top card is
\* found; a field is what its selectors find, in list order; desc is what
\* find_elements gives for the description block, as the texts of the elements
BlankPage ==
    [nav |-> TRUE, top |-> TRUE,
     title |-> <<Missing, Missing>>, company |-> <<Missing, Missing>>,
     location |-> <<Missing, Missing>>, workplace |-> <<Missing>>,
     posted |-> <<Missing, Missing>>, schedule |-> <<Missing>>,
     desc |-> <<>>]

DetailPages ==
    { BlankPage,
      [BlankPage EXCEPT !.nav = FALSE],
      [BlankPage EXCEPT !.top = FALSE],
      [BlankPage EXCEPT !.top = FALSE, !.desc = <<<<"About the job">>>>],
      [BlankPage EXCEPT !.desc = <<<<" ", "About the job", " ">>>>],
      [BlankPage EXCEPT !.desc = <<<<" ">>>>, !.title = <<<<" ">>, Missing>>],
      [BlankPage EXCEPT !.title = <<Empty, <<"Data Analyst">>>>,
                        !.company = <<<<"Acme">>, Missing>>],
      [BlankPage EXCEPT !.title = <<<<"Data Analyst", " ">>, <<"Analyst">>>>,
                        !.company = <<Missing, <<"Acme">>>>,
                        !.location = <<<<"Madrid">>, Missing>>,
                        !.workplace = <<<<"Remote">>>>,
                        !.posted = <<Missing, <<"1 day ago">>>>,
                        !.schedule = <<<<"Full-time">>>>,
                        !.desc = <<<<"About the job">>, <<"More">>>>] }

\* description = desc_container[0].text.strip() if desc_container else None
Description(blocks) == IF blocks # <<>> THEN Strip(blocks[1]) ELSE None

\* what scrape_job returns for a page: a record, or None as <<>>
NoRecord == <<>>

ScrapeRecord(dp, link) ==
    [job_title |-> first_text(dp.title),
     company_name |-> first_text(dp.company),
     company_location |-> first_text(dp.location),
     work_method |-> first_text(dp.workplace),
     post_date |-> first_text(dp.posted),
     work_time |-> first_text(dp.schedule),
     job_description |-> Description(dp.desc),
     url |-> link]

\* ScrapeResult without the check of title and description
ScrapeResultNoCheck(dp, link) ==
    IF ~dp.nav \/ ~dp.top THEN NoRecord ELSE ScrapeRecord(dp, link)

\* ScrapeResult asking for a title and a description
ScrapeResultNeedsBoth(dp, link) ==
    IF ~dp.nav \/ ~dp.top
    THEN NoRecord
    ELSE IF Falsy(first_text(dp.title)) \/ Falsy(Description(dp.desc))
         THEN NoRecord
         ELSE ScrapeRecord(dp, link)

ScrapeResult(dp, link) ==
    IF ~dp.nav \/ ~dp.top
    THEN NoRecord
    ELSE IF Falsy(first_text(dp.title)) /\ Falsy(Description(dp.desc))
         THEN NoRecord
         ELSE ScrapeRecord(dp, link)

\* ScrapeStep with a failed navigation leaving scrape_job as an exception
ScrapeStepRaises(dp) ==
    /\ visited' = Append(visited, linkList[idx])
    /\ results' = Append(results, ScrapeResult(dp, linkList[idx]))
    /\ lastPage' = dp
    /\ pc' = IF dp.nav THEN "m_scrape" ELSE "finally"
    /\ err' = IF dp.nav THEN err ELSE "WebDriverException"
    /\ url' = IF dp.nav THEN linkList[idx] ELSE url
    /\ records' = IF ScrapeResult(dp, linkList[idx]) # NoRecord
                  THEN Append(records, ScrapeResult(dp, linkList[idx]))
                  ELSE records
    /\ idx' = idx + 1

\* one iteration of main's loop over links: rec = scrape_job(link); if rec:
\* records.append(rec)
ScrapeStep(dp) ==
    /\ visited' = Append(visited, linkList[idx])
    /\ results' = Append(results, ScrapeResult(dp, linkList[idx]))
    /\ lastPage' = dp
    /\ pc' = "m_scrape"
    /\ UNCHANGED err
    /\ url' = IF dp.nav THEN linkList[idx] ELSE url
    /\ records' = IF ScrapeResult(dp, linkList[idx]) # NoRecord
                  THEN Append(records, ScrapeResult(dp, linkList[idx]))
                  ELSE records
    /\ idx' = idx + 1

ScrapeJob ==
    /\ UNCHANGED probe
    /\ pc = "m_scrape"
    /\ idx <= Len(linkList)
    /\ \E dp \in DetailPages : ScrapeStep(dp)
    /\ UNCHANGED <<creds, pages, driver, quitCalls, exitCode, overlay, loginVars,
                   recoverVars, collectVars, linkList, outcome>>

\* ScrapeEnd leaving the loop whatever is left of the list
ScrapeEndAnyTime ==
    /\ UNCHANGED probe
    /\ pc = "m_scrape"
    /\ pc' = "m_persist"
    /\ UNCHANGED <<sessionVars, url, overlay, loginVars, recoverVars, collectVars,
                   scrapeVars>>

\* the loop over links is over
ScrapeEnd ==
    /\ UNCHANGED probe
    /\ pc = "m_scrape"
    /\ idx > Len(linkList)
    /\ pc' = "m_persist"
    /\ UNCHANGED <<sessionVars, url, overlay, loginVars, recoverVars, collectVars,
                   scrapeVars>>

\* ------------------------------------------------------------ main, last part
\* if records: to_csv, which can raise; else "nothing to write"
PersistStep(written) ==
    IF records # <<>>
    THEN IF written
         THEN /\ outcome' = "rows_written"
              /\ UNCHANGED err
         ELSE /\ err' = "OSError"
              /\ UNCHANGED outcome
    ELSE /\ outcome' = "nothing_to_write"
         /\ UNCHANGED err

Persist ==
    /\ UNCHANGED probe
    /\ pc = "m_persist"
    /\ \E written \in BOOLEAN : PersistStep(written)
    /\ pc' = "finally"
    /\ UNCHANGED <<creds, pages, driver, quitCalls, exitCode, url, overlay, loginVars,
                   recoverVars, collectVars, linkList, idx, records, visited, results,
                   lastPage>>

FinallySwallowsError ==
    /\ UNCHANGED probe
    /\ pc = "finally"
    /\ driver' = "closed"
    /\ quitCalls' = quitCalls + 1
    /\ exitCode' = 0
    /\ pc' = "done"
    /\ UNCHANGED <<creds, pages, err, url, overlay, loginVars, recoverVars,
                   collectVars, scrapeVars>>

\* Finally closing the browser at the end of the try block, not in a finally
FinallyOnSuccessOnly ==
    /\ UNCHANGED probe
    /\ pc = "finally"
    /\ driver' = IF err = "none" THEN "closed" ELSE driver
    /\ quitCalls' = IF err = "none" THEN quitCalls + 1 ELSE quitCalls
    /\ exitCode' = IF err = "none" THEN 0 ELSE 1
    /\ pc' = "done"
    /\ UNCHANGED <<creds, pages, err, url, overlay, loginVars, recoverVars,
                   collectVars, scrapeVars>>

\* finally: driver.quit(); then main returns or the exception leaves it
Finally ==
    /\ UNCHANGED probe
    /\ pc = "finally"
    /\ driver' = "closed"
    /\ quitCalls' = quitCalls + 1
    /\ exitCode' = IF err = "none" THEN 0 ELSE 1
    /\ pc' = "done"
    /\ UNCHANGED <<creds, pages, err, url, overlay, loginVars, recoverVars,
                   collectVars, scrapeVars>>

\* ------------------------------------------------------------ the helper
\* functions called on their own: probe holds the argument of one call and, step
\* by step, what the function returns for it
runVars == <<pc, sessionVars, url, overlay, loginVars, recoverVars, collectVars,
             scrapeVars>>

TailTokens == {"?", "#", "x"}
Tails == UNION {[1..k -> TailTokens] : k \in 0..MaxTailLen}
OtherPrefix == <<"https://www.linkedin.com", "/jobs/collections">>

\* the values of a.get_attribute("href") given to harvest's loop body
ProbeHrefs ==
    {None, Empty}
    \cup {l \o p \o <<"/", "1">> \o t \o r :
            l \in Padding, r \in Padding, p \in {ViewPrefix, OtherPrefix}, t \in Tails}

\* what one selector of first_text finds: no element, or an element's text
CandidateTexts == {Missing, Empty, <<" ">>, <<"a">>, <<" ", "b", " ">>}
ProbeTexts == UNION {[1..k -> CandidateTexts] : k \in 1..MaxCandidates}

ProbeInputs ==
    {[kind |-> "href", stage |-> "input", arg |-> h] : h \in ProbeHrefs}
    \cup {[kind |-> "container", stage |-> "input", arg |-> S] :
             S \in SUBSET (1..NumContainerSel)}
    \cup {[kind |-> "text", stage |-> "input", arg |-> f] : f \in ProbeTexts}

ProbeInit ==
    /\ RunInit
    /\ creds
    /\ pages = 1
    /\ probe \in ProbeInputs

\* harvest's loop body for one anchor
ProbeHarvest ==
    /\ probe.kind = "href"
    /\ probe.stage = "input"
    /\ probe' = [kind |-> "href", stage |-> "harvested", arg |-> probe.arg,
                 added |-> HarvestLink(probe.arg)]
    /\ UNCHANGED runVars

\* href.split("?")[0] of the stripped attribute
ProbeCanonical ==
    /\ probe.kind = "href"
    /\ probe.stage = "input"
    /\ probe' = [kind |-> "href", stage |-> "canonical", arg |-> probe.arg,
                 canon |-> Canonical(Strip(OrEmpty(probe.arg)))]
    /\ UNCHANGED runVars

\* the same split applied to its own result
ProbeAgain ==
    /\ probe.kind = "href"
    /\ probe.stage = "canonical"
    /\ probe' = [kind |-> "href", stage |-> "again", arg |-> probe.arg,
                 canon |-> probe.canon, again |-> Canonical(probe.canon)]
    /\ UNCHANGED runVars

ProbeContainer ==
    /\ probe.kind = "container"
    /\ probe.stage = "input"
    /\ probe' = [kind |-> "container", stage |-> "returned", arg |-> probe.arg,
                 got |-> FindResultsContainer(probe.arg)]
    /\ UNCHANGED runVars

ProbeText ==
    /\ probe.kind = "text"
    /\ probe.stage = "input"
    /\ probe' = [kind |-> "text", stage |-> "returned", arg |-> probe.arg,
                 got |-> first_text(probe.arg)]
    /\ UNCHANGED runVars

ProbeNext ==
    \/ ProbeHarvest
    \/ ProbeCanonical
    \/ ProbeAgain
    \/ ProbeContainer
    \/ ProbeText

ProbeSpec == ProbeInit /\ [][ProbeNext]_vars

\* ------------------------------------------------------------ specification
Next ==
    \/ Start
    \/ MainLogin
    \/ LoginGet
    \/ LoginConsent
    \/ LoginFields
    \/ MainGet
    \/ MainRecover
    \/ RecoverEntry
    \/ RecoverDismiss
    \/ RecoverSignIn
    \/ RecoverLogin
    \/ RecoverGet
    \/ RecoverRecheck
    \/ RecoverEscape
    \/ MainCollect
    \/ HarvestFind
    \/ HarvestAnchor
    \/ HarvestDone
    \/ Paginate
    \/ CollectReturn
    \/ ScrapeJob
    \/ ScrapeEnd
    \/ Persist
    \/ Finally

Spec == Init /\ [][Next]_vars

\* the run up to the return of clear_signin_overlay_or_reauth into main (or to
\* the end of the run, when login fails before)
RecoveryNext ==
    \/ Start
    \/ MainLogin
    \/ LoginGet
    \/ LoginConsent
    \/ LoginFields
    \/ MainGet
    \/ MainRecover
    \/ RecoverEntry
    \/ RecoverDismiss
    \/ RecoverSignIn
    \/ RecoverLogin
    \/ RecoverGet
    \/ RecoverRecheck
    \/ RecoverEscape
    \/ Finally

\* every wait of the program is bounded, so a run that can take a step takes one
RecoverySpec == Init /\ [][RecoveryNext]_vars /\ WF_vars(RecoveryNext)

\* ------------------------------------------------------------ vocabulary of the properties
RECURSIVE Count(_, _)
Count(e, s) ==
    IF s = <<>> THEN 0 ELSE (IF Head(s) = e THEN 1 ELSE 0) + Count(e, Tail(s))

IsPrefix(s, t) == Len(s) <= Len(t) /\ SubSeq(t, 1, Len(s)) = s

\* the recovery routine, or login on its behalf, is running
InRecovery ==
    \/ pc \in {"r_entry", "r_dismiss", "r_signin", "r_login", "r_get", "r_recheck", "r_esc"}
    \/ pc \in {"l_get", "l_consent", "l_fields"} /\ lret = "recover"

\* harvest() is running or about to run
InHarvest == pc \in {"c_find", "c_anchors"}

\* collect_links has returned its list
Returned == stop # "none" /\ pc # "c_return"

\* main's loop over the links is over
ScrapeDone == Returned /\ pc # "m_scrape"

\* what one sign-in cycle of the recovery routine does, in order
SignInCycle == <<"signin", "login", "get">>

\* the outermost invocation took the sign-in path
SignInPathTaken == rlog # <<>> /\ rlog[1] = "signin"

\* ------------------------------------------------------------ C1
\* C1: every harvest() call, the one for page 1 and the one after each pagination
\* click, is preceded by a run of the recovery routine of its own: while the
\* n-th harvest reads the results, the routine has been run at least n times.
C1_RecoveryBeforeEveryHarvest ==
    InHarvest => recoveries >= harvests + 1

C3_LoginExactlyOnce ==
    (pc = "m_collect" /\ SignInPathTaken /\ ~dismissed /\ Count("esc", rlog) = 0
        /\ Count("esc_failed", rlog) = 0)
    => Count("login", rlog) = 1

\* C3 amended: on the sign-in path every login is followed by the navigation to
\* search_url before anything else, the overlay is re-checked only after that
\* navigation, login is called once or twice, and twice only when the overlay
\* was still there at the re-check and the one retry took the sign-in path too.
C3_LoginThenRenavigateThenRecheck ==
    SignInPathTaken =>
        /\ \/ IsPrefix(rlog, SignInCycle \o <<"check">>)
           \/ /\ IsPrefix(SignInCycle \o <<"check_reenter">>, rlog)
              /\ \/ Len(rlog) = 4
                 \/ SubSeq(rlog, 5, Len(rlog)) \in {<<"esc">>, <<"esc_failed">>}
                 \/ IsPrefix(SubSeq(rlog, 5, Len(rlog)), SignInCycle)
        /\ Count("login", rlog) \in {1, 2} \/ rlog = <<"signin">>
        /\ pc = "r_recheck" => (url = SearchUrl /\ rlog[Len(rlog)] = "get")
        /\ pc = "m_collect" =>
              /\ Len(rlog) >= 4
              /\ Count("login", rlog) = 1 <=> (dismissed \/ Len(rlog) <= 5)

C3_Witness ==
    /\ pc = "m_collect"
    /\ rlog = SignInCycle \o <<"check_reenter">> \o SignInCycle

\* ------------------------------------------------------------ C4
\* C4: an invocation with the default budget re-enters itself at most once,
\* calls login at most twice, and ends: whenever the routine is running, a
\* later state has left it.
RecoveryBounded ==
    /\ depth <= DefaultAttempts
    /\ Count("check_reenter", rlog) <= DefaultAttempts
    /\ Count("login", rlog) <= DefaultAttempts + 1

C4_RecoveryTerminates ==
    /\ []RecoveryBounded
    /\ (InRecovery ~> ~InRecovery)

C4_Witness ==
    /\ pc = "r_recheck"
    /\ depth = 1
    /\ overlay
    /\ Count("login", rlog) = 2

\* ------------------------------------------------------------ C5
NoDuplicates(s) == \A i, j \in 1..Len(s) : s[i] = s[j] => i = j

\* C5: the list collect_links returns has no duplicates, is the set links, has
\* at most LinksPerPage entries per page harvested, and each entry starts with
\* the job-view prefix and contains no "?".
C5_LinkSetCanonical ==
    Returned =>
        /\ NoDuplicates(linkList)
        /\ SeqToSet(linkList) = links
        /\ Len(linkList) <= LinksPerPage * harvests
        /\ \A i \in 1..Len(linkList) :
             /\ StartsWith(linkList[i], ViewPrefix)
             /\ "?" \notin SeqToSet(linkList[i])

C5_Witness ==
    /\ Returned
    /\ pages >= 1
    /\ harvests = 2
    /\ Len(linkList) = 2

\* ------------------------------------------------------------ C6
\* C6: no page beyond max(1, pages) is harvested; and once the control for page
\* k is not found, pagination is over with k in 2..pages and exactly pages
\* 1..k-1 harvested, no exception comes from it, and the list returned holds
\* exactly the links those harvests produced.
C6_EarlyStopReturnsUnion ==
    /\ harvests <= Max(1, pages)
    /\ stop = "no_control" =>
          /\ ~InHarvest /\ pc # "c_loop"
          /\ page \in FirstNextPage..pages
          /\ harvests = page - 1
          /\ links = seen
          /\ err \notin {"ResultsTimeout", "LoginTimeout"}
          /\ pc = "c_return" => err = "none"
          /\ Returned => (err = "none" \/ pc \in {"finally", "done"})
          /\ Returned => SeqToSet(linkList) = seen

C6_Witness ==
    /\ pc = "m_scrape"
    /\ stop = "no_control"
    /\ pages = 3
    /\ page = 3
    /\ harvests = 2
    /\ Len(linkList) = 2

\* ------------------------------------------------------------ C7
\* no locator chain of the page resolves and it has no description block
NothingResolves(dp) ==
    /\ Falsy(first_text(dp.title))
    /\ Falsy(first_text(dp.company))
    /\ Falsy(first_text(dp.location))
    /\ Falsy(first_text(dp.workplace))
    /\ Falsy(first_text(dp.posted))
    /\ Falsy(first_text(dp.schedule))
    /\ dp.desc = <<>>

\* C7: every record in records has a non-empty title or a non-empty
\* description, and the call for a page on which nothing resolves returned None.
C7_RecordsAreValid ==
    /\ \A i \in 1..Len(records) :
         ~Falsy(records[i].job_title) \/ ~Falsy(records[i].job_description)
    /\ \A i \in 1..Len(results) :
         results[i] # NoRecord =>
            ~Falsy(results[i].job_title) \/ ~Falsy(results[i].job_description)
    /\ (visited # <<>> /\ NothingResolves(lastPage)) =>
          results[Len(results)] = NoRecord

C7_Witness ==
    /\ Len(visited) = 2
    /\ lastPage = BlankPage
    /\ Len(records) = 1

\* ------------------------------------------------------------ C8
\* only the description of the page resolves
OnlyDescription(dp) ==
    /\ Falsy(first_text(dp.title))
    /\ Falsy(first_text(dp.company))
    /\ Falsy(first_text(dp.location))
    /\ Falsy(first_text(dp.workplace))
    /\ Falsy(first_text(dp.posted))
    /\ Falsy(first_text(dp.schedule))
    /\ ~Falsy(Description(dp.desc))

\* the last scrape_job call returned a record with the page's description and
\* the URL it was called with, and main appended it
LastIsDescriptionRecord ==
    /\ results[Len(results)] # NoRecord
    /\ results[Len(results)].job_description = Description(lastPage.desc)
    /\ results[Len(results)].url = visited[Len(visited)]
    /\ records # <<>>
    /\ records[Len(records)] = results[Len(results)]

\* C8 as stated: for a page where only the description resolves, scrape_job
\* returns a record with that description and the input URL.
C8_DescriptionAloneGivesRecord ==
    (visited # <<>> /\ OnlyDescription(lastPage)) => LastIsDescriptionRecord

\* C8 amended: the same, for a page that loads and whose top card is found.
C8_DescriptionGivesRecordUnderTopCard ==
    (visited # <<>> /\ OnlyDescription(lastPage) /\ lastPage.nav /\ lastPage.top)
    => LastIsDescriptionRecord

C8_Witness ==
    /\ visited # <<>>
    /\ OnlyDescription(lastPage)
    /\ lastPage.nav /\ lastPage.top
    /\ Falsy(records[Len(records)].job_title)

\* ------------------------------------------------------------ C9
\* the records of the calls that returned one, in order
RECURSIVE Successes(_)
Successes(rs) ==
    IF rs = <<>> THEN <<>>
    ELSE (IF Head(rs) # NoRecord THEN <<Head(rs)>> ELSE <<>>) \o Successes(Tail(rs))

\* C9: while main loops over the links no exception is pending and the calls
\* made so far are those for the first idx - 1 links, in order; once the loop
\* is over every link has been tried exactly once, in list order; and records
\* is always the records of the calls that returned one, in order, each with
\* the URL of its call.
C9_EveryLinkTriedInOrder ==
    /\ pc = "m_scrape" => (err = "none" /\ visited = SubSeq(linkList, 1, idx - 1))
    /\ ScrapeDone => visited = linkList
    /\ Len(results) = Len(visited)
    /\ records = Successes(results)
    /\ \A i \in 1..Len(results) : results[i] # NoRecord => results[i].url = visited[i]

C9_Witness ==
    /\ ScrapeDone
    /\ Len(linkList) = 2
    /\ results[1] = NoRecord
    /\ results[2] # NoRecord
    /\ Len(records) = 1

\* ------------------------------------------------------------ C10
\* C10: without credentials no browser exists and nothing is navigated; the
\* browser is quit at most once and never while a step of the run is still to
\* come; and a run that created a browser ends with it closed by one quit.
C10_SessionAlwaysTornDown ==
    /\ ~creds => (driver = "none" /\ url = NoUrl /\ pc \in {"start", "done"})
    /\ quitCalls <= 1
    /\ driver = "open" <=> (creds /\ pc \notin {"start", "done"})
    /\ pc # "done" => quitCalls = 0
    /\ (pc = "done" /\ creds) => (driver = "closed" /\ quitCalls = 1)

C10_Witness ==
    /\ pc = "done"
    /\ err = "ResultsTimeout"
    /\ driver = "closed"
    /\ quitCalls = 1

C12_CanonicalIdempotent ==
    (probe.kind = "href" /\ probe.stage = "again") =>
        /\ probe.again = probe.canon
        /\ "?" \notin SeqToSet(probe.canon)

C12_Witness ==
    /\ probe.kind = "href"
    /\ probe.stage = "again"
    /\ Count("?", probe.arg) = 2
    /\ probe.canon # Strip(probe.arg)
    /\ probe.again = probe.canon

\* ------------------------------------------------------------ C13
\* the anchor's attribute as harvest tests it: (href or "").strip()
Stripped == Strip(OrEmpty(probe.arg))

Harvested == probe.kind = "href" /\ probe.stage = "harvested"

\* C13 as stated: a link added by harvest holds neither a query string nor a
\* fragment.
C13_NoQueryNoFragment ==
    Harvested =>
        \A l \in probe.added : "?" \notin SeqToSet(l) /\ "#" \notin SeqToSet(l)

\* C13 as the code has it: harvest adds a link exactly for an attribute whose
\* stripped text starts with the job-view prefix, and the link is that text up
\* to its first "?": it holds no "?", and everything before the first "?" is
\* kept, a fragment included.
C13_QueryStrippedOnly ==
    Harvested =>
        /\ probe.added # {} <=> StartsWith(Stripped, ViewPrefix)
        /\ Cardinality(probe.added) <= 1
        /\ \A l \in probe.added :
              /\ IsPrefix(l, Stripped)
              /\ StartsWith(l, ViewPrefix)
              /\ "?" \notin SeqToSet(l)
              /\ l = Stripped \/ Stripped[Len(l) + 1] = "?"

C13_Witness ==
    /\ Harvested
    /\ "#" \in SeqToSet(probe.arg)
    /\ "?" \notin SeqToSet(probe.arg)
    /\ probe.added = {Stripped}

\* ------------------------------------------------------------ C14
\* C14 as stated: a run that harvested page 1 and is over stopped paginating
\* by exhaustion or for want of a page control, and returned every link it
\* had seen.
C14_EarlierLinksNeverLost ==
    (harvests >= 1 /\ pc = "done") =>
        /\ stop \in {"exhausted", "no_control"}
        /\ SeqToSet(linkList) = seen

\* C14 as the code has it: after page 1, collect_links ends in one of three
\* ways.  By exhaustion or for want of a page control it returns every link
\* seen, each once.  Or a click succeeds and no results container resolves on
\* the page it leads to: harvest raises, nothing is returned, the links of the
\* earlier pages are lost and the run ends with no page visited and nothing
\* persisted.
C14_PaginationEndsThreeWays ==
    /\ Returned =>
          /\ stop \in {"exhausted", "no_control"}
          /\ SeqToSet(linkList) = seen
          /\ Len(linkList) = Cardinality(seen)
    /\ stop = "exhausted" => page \notin PageRange(pages)
    /\ (harvests >= 1 /\ pc \in {"finally", "done"}) =>
          stop # "none" \/ err = "ResultsTimeout"
    /\ (harvests >= 1 /\ err = "ResultsTimeout") =>
          /\ stop = "none"
          /\ Len(clickLog) = harvests
          /\ pc \in {"finally", "done"}
          /\ linkList = <<>>
          /\ visited = <<>>
          /\ outcome = "none"

C14_Witness ==
    /\ pc = "done"
    /\ err = "ResultsTimeout"
    /\ clickLog = <<2>>
    /\ harvests = 1
    /\ seen # {}
    /\ linkList = <<>>

\* ------------------------------------------------------------ C15
\* C15: once no results container resolved, or a login field did not become
\* visible, the run is aborted: the only step left is the teardown, no list of
\* links was returned, no detail page is visited, no record exists and nothing
\* is persisted.
C15_FatalErrorsAbort ==
    err \in {"ResultsTimeout", "LoginTimeout"} =>
        /\ pc \in {"finally", "done"}
        /\ linkList = <<>>
        /\ visited = <<>>
        /\ records = <<>>
        /\ outcome = "none"

C15_Witness ==
    /\ pc = "done"
    /\ err = "ResultsTimeout"
    /\ harvests = 0
    /\ recoveries = 1
    /\ visited = <<>>
    /\ outcome = "none"

\* ------------------------------------------------------------ C16
\* the consent loop is over at position i of the login log: a consent button
\* was clicked, or every selector was tried
ConsentOverAt(i) ==
    /\ i >= 2
    /\ \/ llog[i - 1] = "consent_clicked"
       \/ /\ i = NumConsentSel + 2
          /\ \A j \in 2..(i - 1) : llog[j] = "consent_missed"

\* C16: a login call starts with the navigation to the login page and
\* navigates once; the first field is waited for only after the navigation
\* and the consent loop; the call raises exactly when the username or the
\* password field did not become visible, as the last thing it does; a
\* consent loop that clicked nothing and a submit click that failed leave
\* the call a success, which returns to its caller.
C16_LoginFailsOnlyOnFields ==
    LET n == Len(llog) IN
    /\ pc \in {"l_consent", "l_fields"} => (n >= 1 /\ url = LoginUrl)
    /\ n >= 1 => (llog[1] = "get" /\ Count("get", llog) = 1)
    /\ \A i \in 1..n :
          /\ llog[i] \in {"username", "no_username"} => ConsentOverAt(i)
          /\ llog[i] \in {"password", "no_password"} =>
                (i >= 2 /\ llog[i - 1] = "username")
          /\ llog[i] \in {"submit", "submit_failed"} =>
                (i = n /\ llog[i - 1] = "password")
          /\ llog[i] \in {"no_username", "no_password"} =>
                (i = n - 1 /\ llog[n] = "raise")
          /\ llog[i] = "raise" =>
                (i = n /\ i >= 2 /\ llog[i - 1] \in {"no_username", "no_password"})
    /\ err = "LoginTimeout" <=> (n >= 1 /\ llog[n] = "raise")
    /\ (n >= 1 /\ llog[n] \in {"submit", "submit_failed"}) =>
          /\ err = "none"
          /\ pc = AfterLogin(lret)

C16_Witness ==
    /\ pc = "r_get"
    /\ err = "none"
    /\ Count("consent_missed", llog) = NumConsentSel
    /\ llog[Len(llog)] = "submit_failed"

\* ------------------------------------------------------------ C17
\* main's first login call has not returned yet
InitialLoginPending ==
    \/ pc \in {"start", "m_login"}
    \/ pc \in {"l_get", "l_consent", "l_fields"} /\ lret = "main"
    \/ err = "LoginTimeout" /\ lret = "main"

\* collect_links is running
InCollect == pc \in {"m_collect", "c_find", "c_anchors", "c_loop", "c_return"}

PhaseOrder ==
    /\ (InitialLoginPending \/ pc = "m_get") =>
          /\ url # SearchUrl
          /\ recoveries = 0
          /\ harvests = 0
          /\ visited = <<>>
    /\ (InRecovery \/ InCollect \/ ~Returned) =>
          /\ linkList = <<>>
          /\ visited = <<>>
          /\ results = <<>>
          /\ outcome = "none"
    /\ (visited # <<>> \/ pc \in {"m_scrape", "m_persist"}) =>
          /\ Returned
          /\ SeqToSet(linkList) = seen
          /\ links = seen
    /\ pc = "m_scrape" =>
          /\ Len(visited) = idx - 1
          /\ IsPrefix(visited, linkList)
    /\ (pc = "m_persist" \/ outcome # "none") =>
          /\ visited = linkList
          /\ Len(results) = Len(linkList)
    /\ outcome # "none" => pc \in {"finally", "done"}
    /\ outcome = "rows_written" => records # <<>>
    /\ outcome = "nothing_to_write" => records = <<>>

PhaseStep ==
    /\ (url' = SearchUrl /\ url # SearchUrl) => pc \in {"m_get", "r_get"}
    /\ links' # links => (pc = "c_anchors" /\ visited = <<>>)
    /\ visited' # visited =>
          /\ pc = "m_scrape"
          /\ visited' = Append(visited, linkList[idx])
          /\ linkList' = linkList
    /\ outcome' # outcome =>
          /\ outcome = "none"
          /\ pc = "m_persist"
          /\ pc' = "finally"

EscapeEvents == {"esc", "esc_failed"}

EscapeLast == rlog # <<>> /\ rlog[Len(rlog)] \in EscapeEvents

EscapePath ==
    /\ pc = "r_esc" =>
          /\ overlay
          /\ Len(rlog) = entryMark
          /\ err = "none"
    /\ EscapeLast =>
          /\ ~InRecovery
          /\ Len(rlog) = entryMark + 1
          /\ Count("esc", rlog) + Count("esc_failed", rlog) = 1
          /\ err # "LoginTimeout"
          /\ pc = "m_collect" => err = "none"

EscapeIsLastStep ==
    pc = "r_esc" =>
        /\ pc' = "m_collect"
        /\ rlog' \in {Append(rlog, e) : e \in EscapeEvents}
        /\ url' = url
        /\ err' = err
        /\ recoveries' = recoveries

\* C18: an invocation of the recovery routine that finds the overlay and can
\* click neither the sign-in button nor the sign-in link sends the escape key
\* once and returns to main: the invocation has called no login, asked for no
\* page and made no recursive call, the escape is the last thing the routine
\* does in the run, and an escape that could not be sent raises nothing.
C18_EscapeIsLastResort == [](EscapePath) /\ [][EscapeIsLastStep]_vars

C18_Witness ==
    /\ pc = "m_collect"
    /\ rlog = <<"esc_failed">>
    /\ overlay
    /\ err = "none"

\* ------------------------------------------------------------ C19
\* the candidates of a first_text call that locate an element
PresentAt == {i \in 1..Len(probe.arg) : probe.arg[i] # Missing}

\* those whose element has text other than whitespace
NonBlankAt == {i \in PresentAt : Strip(probe.arg[i]) # Empty}

ContainerReturned == probe.kind = "container" /\ probe.stage = "returned"

TextReturned == probe.kind = "text" /\ probe.stage = "returned"

\* C19 as stated: both resolvers return the result of the lowest-index
\* candidate whose element is present, and None exactly when no candidate's
\* element is present.
C19_FirstPresentCandidateWins ==
    /\ ContainerReturned =>
          /\ probe.got = 0 <=> probe.arg = {}
          /\ probe.arg # {} => probe.got = Min(probe.arg)
    /\ TextReturned =>
          /\ probe.got = None <=> PresentAt = {}
          /\ PresentAt # {} => probe.got = Strip(probe.arg[Min(PresentAt)])

\* C19 as the code has it: _find_results_container returns the lowest-index
\* candidate whose element is present and None exactly when there is none;
\* first_text returns the stripped text of the lowest-index candidate whose
\* element is present with text other than whitespace, passing over present
\* candidates whose text is blank, and None exactly when there is no such
\* candidate; a candidate that is not found is passed over, not raised.
C19_FirstNonBlankTextWins ==
    /\ ContainerReturned =>
          /\ probe.got = 0 <=> probe.arg = {}
          /\ probe.arg # {} => probe.got = Min(probe.arg)
    /\ TextReturned =>
          /\ probe.got = None <=> NonBlankAt = {}
          /\ NonBlankAt # {} => probe.got = Strip(probe.arg[Min(NonBlankAt)])
          /\ probe.got # Empty

C19_Witness ==
    /\ TextReturned
    /\ PresentAt = {1, 2}
    /\ NonBlankAt = {2}
    /\ probe.got = Strip(probe.arg[2])

\* ------------------------------------------------------------ C20
\* collect_links has been called: it starts at page 1
CollectStarted == page >= 1

\* the calls of harvest() made so far: those that returned, and the one that
\* is running or that raised
HarvestCalls ==
    harvests + (IF InHarvest \/ err = "ResultsTimeout" THEN 1 ELSE 0)

\* C20: collect_links calls harvest for page 1 whatever --pages is, zero and
\* negative values included; the page buttons it clicks are those of pages
\* 2, 3, ... in this order with none skipped or repeated; the first button that
\* cannot be clicked ends the pagination; there are at most max(0, pages - 1)
\* clicks; and harvest is called once more than there are clicks.
C20_PagesClickedInOrder ==
    /\ \A i \in 1..Len(clickLog) : clickLog[i] = i + 1
    /\ Len(clickLog) <= Max(0, pages - 1)
    /\ ~CollectStarted => (clickLog = <<>> /\ harvests = 0)
    /\ CollectStarted => HarvestCalls = Len(clickLog) + 1
    /\ Returned => harvests = Len(clickLog) + 1
    /\ (Returned /\ pages <= 1) => (harvests = 1 /\ stop = "exhausted")
    /\ stop = "no_control" => page = Len(clickLog) + 2
    /\ stop = "exhausted" => Len(clickLog) = Max(0, pages - 1)

C20_Witness ==
    /\ Returned
    /\ pages = 3
    /\ clickLog = <<2, 3>>
    /\ harvests = 3
    /\ stop = "exhausted"

====
